---------------------------- MODULE Spec2Model ----------------------------
(***************************************************************************)
(* Model of webhook_fila.py: the webhook ingress, the in-memory task queue,*)
(* the worker loop, the OAuth token manager, the API client and the record *)
(* processor over the PostgreSQL tables.                                   *)
(*                                                                         *)
(* Python dicts (JSON documents, TOKEN_CACHE, table rows by key) are       *)
(* functions whose DOMAIN is the set of keys present.  The clock counts    *)
(* seconds and is observed with a granularity of one minute: sleeps        *)
(* shorter than that leave the observed clock where it is.                 *)
(***************************************************************************)
EXTENDS Integers, Sequences, FiniteSets, TLC

VARIABLES
    now,               \* time.time(), seconds
    processing_queue,  \* queue.Queue(): sequence of tasks
    TOKEN_CACHE,       \* dict: nome_conta -> [token, expires_at]
    TOKEN_LOCK,        \* threading.Lock(): 0 when free, else the holder thread
    bling_contas,      \* table m_db.bling_contas: nome_conta -> row
    pedidos,           \* table m_db.pedidos: pedido_data_id -> row
    fat_itens_venda,   \* table m_db.fat_itens_venda: set of rows
    dim_produtos,      \* table m_db.dim_produtos: <<id_produto, conta>> -> row
    dim_estrutura,     \* table m_db.dim_estrutura: set of rows
    eventos_bling,     \* table m_db.eventos_bling: <<data_id, eventId>> -> row
    bling_oauth,       \* the ERP's side of OAuth: nome_conta -> generation of the
                       \* refresh token it currently accepts
    posts,             \* refresh POSTs sent per account so far
    pc,                \* per thread: where the worker thread stands
    task,              \* per thread: the task taken from the queue
    full_data,         \* per thread: the fetched document
    token,             \* per thread: the bearer token in use / returned
    current_ts,        \* per thread: get_bling_token_for_account's current_ts
    attempt,           \* per thread: the refresh loop's attempt
    tentativa,         \* per thread: get_api_details_v3's tentativa
    call_site,         \* per thread: which call of get_bling_token_for_account
    tok_io,            \* per thread: the store and network operations of its
                       \* last call of get_bling_token_for_account
    conn,              \* per thread: whether it holds a store connection
    nseq,              \* number of tasks the ingress has enqueued
    committed,         \* seq of the tasks whose unit of work committed
    http_resp          \* the ingress's last HTTP response

vars == <<now, processing_queue, TOKEN_CACHE, TOKEN_LOCK, bling_contas, pedidos,
          fat_itens_venda, dim_produtos, dim_estrutura, eventos_bling,
          bling_oauth, posts, pc, task, full_data, token, current_ts, attempt,
          tentativa, call_site, tok_io, conn, nseq, committed, http_resp>>

store_vars == <<pedidos, fat_itens_venda, dim_produtos, dim_estrutura, eventos_bling>>

token_vars == <<TOKEN_CACHE, TOKEN_LOCK, bling_contas, bling_oauth, posts>>

(***************************************************************************)
(* Bounds of the model.                                                    *)
(***************************************************************************)
MaxTicks == 2      \* minutes the clock may advance
MaxTasks == 2      \* webhooks the ingress accepts
MaxGen   == 1      \* refreshes the ERP grants with 200
MaxPosts == 3      \* refresh POSTs per account
MaxLines == 3      \* lines of an order document (line-item specification)

(***************************************************************************)
(* Program constants.                                                      *)
(***************************************************************************)
Margin            == 60        \* expires_at > current_ts + 60
SleepToken429     == 60        \* time.sleep(60) in the refresh loop
SleepApi429       == 60        \* time.sleep(60) in the GET loop
max_retries_token == 3
max_tentativas    == 20
Sentinel          == 9999999   \* situacao_id of a deleted order

TickLen   == 1 * 60            \* granularity of the observed clock
ExpiresIn == 6 * 3600          \* expires_in of a granted token (the ERP's 6 hours)

Threads == {1, 2}

(***************************************************************************)
(* Python values.                                                          *)
(***************************************************************************)
None     == "None"                  \* None / SQL NULL among strings
NoToken  == <<>>                    \* None among tokens
EmptyDoc == [k \in {} |-> 0]        \* {}
NoTask   == EmptyDoc

\* dict.get(key, default)
Get(d, k, default) == IF k \in DOMAIN d THEN d[k] ELSE default

\* d[k] = v on a dict
Put(d, k, v) == [x \in DOMAIN d \cup {k} |-> IF x = k THEN v ELSE d[x]]

\* del d[k]
Del(d, k) == [x \in DOMAIN d \ {k} |-> d[x]]

AccessToken(gen) == <<"at", gen>>

(***************************************************************************)
(* Event kinds.  str.startswith is tabulated over the kinds the model      *)
(* feeds in.                                                               *)
(***************************************************************************)
OrderEvents   == {"order.created", "order.updated", "order.deleted"}
ProductEvents == {"product.created", "product.updated"}

startswith_order(event_type) == event_type \in OrderEvents

startswith_product(event_type) == event_type \in ProductEvents

(***************************************************************************)
(* Dates and optional numbers.  A date string carried by a payload, the    *)
(* string datetime.now().strftime(...) gives at clock n, and NULL.         *)
(***************************************************************************)
Date(k)  == <<"date", k>>
Stamp(n) == <<"now", n>>
NULL     == <<"null", 0>>
NullNum  == 0 - 1                   \* None / NULL among numbers

\* a JSON value that is an object: <<"dict", d>>; a scalar: <<"num", n>>
IsDict(v) == v[1] = "dict"

(***************************************************************************)
(* Record processor: processar_itens_pedido.                               *)
(***************************************************************************)
\* a loop that keeps the last line's quantity of a repeated code
RECURSIVE itens_sem_soma(_, _)
itens_sem_soma(itens, acc) ==
    IF itens = <<>> THEN acc
    ELSE LET item       == Head(itens)
             codigo     == Get(item, "codigo", "")
             quantidade == Get(item, "quantidade", 0)
         IN IF \A i \in DOMAIN acc : acc[i].codigo # codigo
            THEN itens_sem_soma(Tail(itens),
                     Append(acc, [codigo     |-> codigo,
                                  descricao  |-> Get(item, "descricao", ""),
                                  quantidade |-> quantidade,
                                  valor      |-> Get(item, "valor", 0)]))
            ELSE itens_sem_soma(Tail(itens),
                     [i \in DOMAIN acc |->
                         IF acc[i].codigo = codigo
                         THEN [acc[i] EXCEPT !.quantidade = quantidade]
                         ELSE acc[i]])

\* the loop over itens building itens_agrupados; acc keeps insertion order
RECURSIVE itens_agrupados(_, _)
itens_agrupados(itens, acc) ==
    IF itens = <<>> THEN acc
    ELSE LET item       == Head(itens)
             codigo     == Get(item, "codigo", "")
             descricao  == Get(item, "descricao", "")
             quantidade == Get(item, "quantidade", 0)
             valor_unit == Get(item, "valor", 0)
         IN IF \A i \in DOMAIN acc : acc[i].codigo # codigo
            THEN itens_agrupados(Tail(itens),
                     Append(acc, [codigo |-> codigo, descricao |-> descricao,
                                  quantidade |-> quantidade, valor |-> valor_unit]))
            ELSE itens_agrupados(Tail(itens),
                     [i \in DOMAIN acc |->
                         IF acc[i].codigo = codigo
                         THEN [acc[i] EXCEPT !.quantidade = @ + quantidade]
                         ELSE acc[i]])

\* float(item.get(...)) of a line whose quantidade or valor is null raises
\* TypeError
float_levanta(item) ==
    \/ Get(item, "quantidade", 0) = NullNum
    \/ Get(item, "valor", 0) = NullNum

\* the table after processar_itens_pedido(conn, pedido_id, data_venda, full_data):
\* the DELETE, then the grouping loop, then the INSERTs; an exception of the
\* loop is caught and logged by the function's own "except", after the DELETE
\* and before any INSERT
processar_itens_pedido(tbl, pedido_id, data_venda, doc) ==
    LET kept   == {r \in tbl : r.pedido_data_id # pedido_id}
        itens  == Get(doc, "itens", <<>>)
        grupos == itens_agrupados(itens, <<>>)
    IN IF itens = <<>> THEN kept
       ELSE IF \E i \in DOMAIN itens : float_levanta(itens[i]) THEN kept
       ELSE kept \cup {[pedido_data_id |-> pedido_id,
                        codigo         |-> grupos[i].codigo,
                        descricao      |-> grupos[i].descricao,
                        quantidade     |-> grupos[i].quantidade,
                        valor_unitario |-> grupos[i].valor,
                        data_venda     |-> data_venda] : i \in DOMAIN grupos}

(***************************************************************************)
(* The store as one value: what a transaction reads and writes.            *)
(***************************************************************************)
Db == [pedidos         |-> pedidos,
       fat_itens_venda |-> fat_itens_venda,
       dim_produtos    |-> dim_produtos,
       dim_estrutura   |-> dim_estrutura,
       eventos_bling   |-> eventos_bling]

(***************************************************************************)
(* Record processor: atualizar_dashboard.                                  *)
(***************************************************************************)
\* an UPDATE that also stamps data_criacao
update_deleted_e_criacao(tbl, pedido_id, val_atualizacao, evento) ==
    IF pedido_id \in DOMAIN tbl
    THEN [tbl EXCEPT ![pedido_id] = [@ EXCEPT !.situacao_id      = Sentinel,
                                              !.data_criacao     = val_atualizacao,
                                              !.data_atualizacao = val_atualizacao,
                                              !.ultimo_evento    = evento]]
    ELSE tbl

\* UPDATE pedidos SET situacao_id = 9999999, data_atualizacao, ultimo_evento
\* WHERE pedido_data_id = %s
update_deleted(tbl, pedido_id, val_atualizacao, evento) ==
    IF pedido_id \in DOMAIN tbl
    THEN [tbl EXCEPT ![pedido_id] = [@ EXCEPT !.situacao_id      = Sentinel,
                                              !.data_atualizacao = val_atualizacao,
                                              !.ultimo_evento    = evento]]
    ELSE tbl

\* data_criacao = EXCLUDED.data_criacao, as for the other columns
sobrescreve_criacao(old, excluded) == excluded

\* data_criacao = COALESCE(d.data_criacao, EXCLUDED.data_criacao)
coalesce_criacao(old, excluded) == IF old # NULL THEN old ELSE excluded

\* INSERT INTO pedidos ... ON CONFLICT (pedido_data_id) DO UPDATE SET ...
upsert_pedido(tbl, pedido_id, conta_bling, evento, doc, val_atualizacao) ==
    LET situacao_obj == Get(doc, "situacao", EmptyDoc)
        situacao_id  == IF situacao_obj # EmptyDoc
                        THEN Get(situacao_obj, "id", 0) ELSE 0
        loja_id      == Get(Get(doc, "loja", EmptyDoc), "id", 0)
        val_criacao  == Get(doc, "data", NULL)
        excluded     == [conta_bling      |-> conta_bling,
                         loja_id          |-> loja_id,
                         numero_pedido    |-> Get(doc, "numero", NullNum),
                         numero_loja      |-> Get(doc, "numeroLoja", NullNum),
                         valor_total      |-> Get(doc, "total", NullNum),
                         situacao_id      |-> situacao_id,
                         data_criacao     |-> val_criacao,
                         data_atualizacao |-> val_atualizacao,
                         ultimo_evento    |-> evento,
                         json_completo    |-> doc]
    IN IF pedido_id \in DOMAIN tbl
       THEN [tbl EXCEPT ![pedido_id] =
                [excluded EXCEPT !.data_criacao =
                    coalesce_criacao(tbl[pedido_id].data_criacao, val_criacao)]]
       ELSE Put(tbl, pedido_id, excluded)

\* atualizar_dashboard(conn, pedido_id, conta_bling, evento, full_data, event_date)
atualizar_dashboard(db, pedido_id, conta_bling, evento, doc, event_date, clock) ==
    LET val_atualizacao == IF event_date # NULL THEN event_date ELSE Stamp(clock)
        val_criacao     == Get(doc, "data", NULL)
        data_venda      == IF val_criacao # NULL THEN val_criacao ELSE Stamp(clock)
    IN IF evento = "order.deleted"
       THEN [db EXCEPT !.pedidos =
                update_deleted(@, pedido_id, val_atualizacao, evento)]
       ELSE [db EXCEPT
                !.pedidos = upsert_pedido(@, pedido_id, conta_bling, evento, doc,
                                          val_atualizacao),
                !.fat_itens_venda =
                    processar_itens_pedido(@, pedido_id, data_venda, doc)]

(***************************************************************************)
(* Record processor: processar_produto_completo.                           *)
(***************************************************************************)
\* estoque_atual: a scalar, or the saldoVirtualTotal of an object
estoque_atual(doc) ==
    IF "estoque" \in DOMAIN doc
    THEN IF IsDict(doc.estoque)
         THEN Get(doc.estoque[2], "saldoVirtualTotal", 0)
         ELSE doc.estoque[2]
    ELSE 0

\* preco_custo: fornecedor.precoCusto, else 0
preco_custo(doc) ==
    IF "fornecedor" \in DOMAIN doc /\ "precoCusto" \in DOMAIN doc.fornecedor
    THEN doc.fornecedor.precoCusto
    ELSE 0

\* the inserts of the structure loop, ON CONFLICT DO NOTHING on the edge's key
RECURSIVE insert_componentes(_, _, _, _)
insert_componentes(tbl, id_prod, nome_conta, componentes) ==
    IF componentes = <<>> THEN tbl
    ELSE LET comp == Head(componentes)
             row  == [id_pai      |-> id_prod,
                      id_filho    |-> comp.produto.id,
                      conta_bling |-> nome_conta,
                      quantidade  |-> comp.quantidade]
             dup  == \E r \in tbl : /\ r.id_pai = row.id_pai
                                    /\ r.id_filho = row.id_filho
                                    /\ r.conta_bling = row.conta_bling
         IN insert_componentes(IF dup THEN tbl ELSE tbl \cup {row},
                               id_prod, nome_conta, Tail(componentes))

\* 'estrutura' in full_data and full_data['estrutura'] and 'componentes' in ...
tem_estrutura(doc) ==
    /\ "estrutura" \in DOMAIN doc
    /\ doc.estrutura # EmptyDoc
    /\ "componentes" \in DOMAIN doc.estrutura

\* processar_produto_completo(conn, full_data, nome_conta); full_data has an id
processar_produto_completo(db, doc, nome_conta, clock) ==
    LET id_prod == doc.id
        row == [codigo           |-> Get(doc, "codigo", ""),
                nome             |-> Get(doc, "nome", ""),
                tipo             |-> Get(doc, "tipo", "P"),
                formato          |-> Get(doc, "formato", "S"),
                situacao         |-> Get(doc, "situacao", "A"),
                estoque_atual    |-> estoque_atual(doc),
                preco_custo      |-> preco_custo(doc),
                preco_venda      |-> Get(doc, "preco", 0),
                json_completo    |-> doc,
                data_atualizacao |-> Stamp(clock)]
    IN [db EXCEPT
          !.dim_produtos  = Put(@, <<id_prod, nome_conta>>, row),
          !.dim_estrutura =
              IF tem_estrutura(doc)
              THEN insert_componentes(
                       {r \in @ : ~(r.id_pai = id_prod /\ r.conta_bling = nome_conta)},
                       id_prod, nome_conta, doc.estrutura.componentes)
              ELSE @]

(***************************************************************************)
(* Event log.                                                              *)
(***************************************************************************)
\* json.dumps(task): the task as enqueued (seq is the model's own tag)
task_json(tk) == [k \in DOMAIN tk \ {"seq"} |-> tk[k]]

\* an INSERT whose key carries the time of processing: an entry per attempt
salvar_log_por_vez(tbl, tk, clock) ==
    Put(tbl, <<tk.entity_id, <<tk.event_type, tk.entity_id>>, clock>>,
        [event        |-> tk.event_type,
         conta_bling  |-> tk.conta_bling,
         data_json    |-> task_json(tk),
         data_created |-> Stamp(clock)])

\* a unit of work that leaves the event log out
sem_log(tbl, tk, clock) == tbl

\* INSERT INTO eventos_bling ... ON CONFLICT (data_id, eventId)
\* DO UPDATE SET event = EXCLUDED.event
salvar_log(tbl, tk, clock) ==
    LET key == <<tk.entity_id, <<tk.event_type, tk.entity_id>>>>
    IN IF key \in DOMAIN tbl
       THEN [tbl EXCEPT ![key] = [@ EXCEPT !.event = tk.event_type]]
       ELSE Put(tbl, key, [event        |-> tk.event_type,
                           conta_bling  |-> tk.conta_bling,
                           data_json    |-> task_json(tk),
                           data_created |-> Stamp(clock)])

(***************************************************************************)
(* Worker thread: leaving the loop body (task_done) and the requeue.       *)
(***************************************************************************)
\* back at processing_queue.get() with the loop body's locals gone
task_done(t) ==
    /\ pc'         = [pc EXCEPT ![t] = "get"]
    /\ task'       = [task EXCEPT ![t] = NoTask]
    /\ full_data'  = [full_data EXCEPT ![t] = EmptyDoc]
    /\ token'      = [token EXCEPT ![t] = NoToken]
    /\ current_ts' = [current_ts EXCEPT ![t] = 0]
    /\ attempt'    = [attempt EXCEPT ![t] = 0]
    /\ tentativa'  = [tentativa EXCEPT ![t] = 1]
    /\ call_site'  = [call_site EXCEPT ![t] = "first"]
    /\ tok_io'     = [tok_io EXCEPT ![t] = {}]
    /\ conn'       = [conn EXCEPT ![t] = FALSE]

\* an exception that ends the worker thread instead of being logged
erro_fatal(t) ==
    /\ pc'         = [pc EXCEPT ![t] = "fim"]
    /\ task'       = [task EXCEPT ![t] = NoTask]
    /\ full_data'  = [full_data EXCEPT ![t] = EmptyDoc]
    /\ token'      = [token EXCEPT ![t] = NoToken]
    /\ current_ts' = [current_ts EXCEPT ![t] = 0]
    /\ attempt'    = [attempt EXCEPT ![t] = 0]
    /\ tentativa'  = [tentativa EXCEPT ![t] = 1]
    /\ call_site'  = [call_site EXCEPT ![t] = "first"]
    /\ tok_io'     = [tok_io EXCEPT ![t] = {}]
    /\ conn'       = [conn EXCEPT ![t] = FALSE]
    /\ UNCHANGED processing_queue

\* an exception reaching the worker's outer "except Exception": it is logged
\* and the loop goes on; the queue is left as it is
erro_generico(t) ==
    /\ task_done(t)
    /\ UNCHANGED processing_queue

(***************************************************************************)
(* Token manager: get_bling_token_for_account.                             *)
(***************************************************************************)
\* a cache test that never finds a usable entry
cache_nunca_valido(cache, nome_conta, ts) ==
    /\ nome_conta \in DOMAIN cache
    /\ cache[nome_conta].expires_at > ts + Margin + ExpiresIn

\* the cache test of step 1
cache_valido(cache, nome_conta, ts) ==
    /\ nome_conta \in DOMAIN cache
    /\ cache[nome_conta].expires_at > ts + Margin

\* the stored row's test of step 2
banco_valido(row, ts) ==
    /\ row.access_token # NoToken
    /\ row.expires_at > ts + Margin

\* get_bling_token_for_account returns tok to get_api_details_v3, which goes
\* on to the GET or raises; the "with TOKEN_LOCK" block and the "finally"
\* have released the lock and the connection
token_return(t, tok, io) ==
    IF tok = NoToken
    THEN erro_generico(t)
    ELSE /\ pc'        = [pc EXCEPT ![t] = "api_get"]
         /\ tok_io'    = [tok_io EXCEPT ![t] = io]
         /\ token'     = [token EXCEPT ![t] = tok]
         /\ tentativa' = [tentativa EXCEPT ![t] =
                             IF call_site[t] = "first" THEN 1 ELSE @]
         /\ attempt'   = [attempt EXCEPT ![t] = 0]
         /\ conn'      = [conn EXCEPT ![t] = FALSE]
         /\ UNCHANGED <<task, full_data, current_ts, call_site, processing_queue>>

\* a lock that lets a second thread in while another one holds it
lock_livre_sem_exclusao(lock) == lock = lock

\* TOKEN_LOCK.acquire() goes through only while no thread holds the lock
lock_livre(lock) == lock = 0

\* "with TOKEN_LOCK:" is entered and the cache is tested
TokEnter(t) ==
    /\ pc[t] = "tok_lock"
    /\ lock_livre(TOKEN_LOCK)
    /\ LET nome_conta == task[t].conta_bling
       IN IF cache_valido(TOKEN_CACHE, nome_conta, current_ts[t])
          THEN /\ token_return(t, TOKEN_CACHE[nome_conta].token, tok_io[t])
               /\ UNCHANGED TOKEN_LOCK
          ELSE /\ TOKEN_LOCK' = t
               /\ pc' = [pc EXCEPT ![t] = "tok_db"]
               /\ UNCHANGED <<task, full_data, token, current_ts, attempt,
                              tentativa, call_site, tok_io, conn, processing_queue>>
    /\ UNCHANGED <<now, TOKEN_CACHE, bling_contas, bling_oauth, posts, store_vars,
                   nseq, committed, http_resp>>

\* get_db_connection() and the SELECT of the account's row
TokDb(t, db_modes) ==
    /\ pc[t] = "tok_db"
    /\ LET nome_conta == task[t].conta_bling
       IN \E mode \in db_modes :
            IF mode # "ok" \/ nome_conta \notin DOMAIN bling_contas
            THEN \* no connection, the SELECT raised, or no such account
                 /\ token_return(t, NoToken, tok_io[t])
                 /\ TOKEN_LOCK' = 0
                 /\ UNCHANGED TOKEN_CACHE
            ELSE IF banco_valido(bling_contas[nome_conta], current_ts[t])
            THEN /\ TOKEN_CACHE' = Put(TOKEN_CACHE, nome_conta,
                        [token      |-> bling_contas[nome_conta].access_token,
                         expires_at |-> bling_contas[nome_conta].expires_at])
                 /\ token_return(t, bling_contas[nome_conta].access_token,
                                 tok_io[t] \cup {"select"})
                 /\ TOKEN_LOCK' = 0
            ELSE /\ pc'      = [pc EXCEPT ![t] = "tok_post"]
                 /\ conn'    = [conn EXCEPT ![t] = TRUE]
                 /\ attempt' = [attempt EXCEPT ![t] = 0]
                 /\ tok_io'  = [tok_io EXCEPT ![t] = @ \cup {"select"}]
                 /\ UNCHANGED <<TOKEN_LOCK, TOKEN_CACHE, task, full_data, token,
                                current_ts, tentativa, call_site, processing_queue>>
    /\ UNCHANGED <<now, bling_contas, bling_oauth, posts, store_vars,
                   nseq, committed, http_resp>>

\* what the ERP may answer to a refresh POST carrying refresh_token: 200 to
\* the refresh token it currently accepts, 400 to one it has rotated away, or
\* one of the statuses it may answer to any request
respostas_token(nome_conta, refresh_token, statuses) ==
    statuses \cup
    (IF refresh_token # <<"rt", bling_oauth[nome_conta]>> THEN {400}
     ELSE IF bling_oauth[nome_conta] < MaxGen THEN {200} ELSE {})

\* the branch "response.status_code == 200" up to the return
renovado(t, nome_conta, gen, db_modes) ==
    LET new_access_token  == AccessToken(gen)
        new_refresh_token == <<"rt", gen>>
        new_expires_at    == current_ts[t] + ExpiresIn
    IN \E mode \in db_modes :
         IF mode = "ok"
         THEN /\ bling_contas' = [bling_contas EXCEPT ![nome_conta] =
                     [access_token  |-> new_access_token,
                      refresh_token |-> new_refresh_token,
                      expires_at    |-> new_expires_at]]
              /\ TOKEN_CACHE' = Put(TOKEN_CACHE, nome_conta,
                     [token |-> new_access_token, expires_at |-> new_expires_at])
              /\ token_return(t, new_access_token, tok_io[t] \cup {"post", "update"})
         ELSE \* the UPDATE or the commit raised: "except Exception"
              /\ token_return(t, NoToken, tok_io[t])
              /\ UNCHANGED <<bling_contas, TOKEN_CACHE>>

\* a refresh that keeps the cache entry when the ERP rejects the refresh token
TokPost_sem_invalidar(t, statuses, db_modes) ==
    /\ pc[t] = "tok_post"
    /\ LET nome_conta    == task[t].conta_bling
           refresh_token == bling_contas[nome_conta].refresh_token
       IN /\ posts[nome_conta] < MaxPosts
          /\ posts' = [posts EXCEPT ![nome_conta] = @ + 1]
          /\ \E st \in respostas_token(nome_conta, refresh_token, statuses) :
               CASE st = 429 ->
                      /\ pc' = [pc EXCEPT ![t] = "tok_sleep"]
                      /\ tok_io' = [tok_io EXCEPT ![t] = @ \cup {"post"}]
                      /\ UNCHANGED <<TOKEN_LOCK, TOKEN_CACHE, bling_contas,
                                     bling_oauth, task, full_data, token,
                                     current_ts, attempt, tentativa, call_site,
                                     conn, processing_queue>>
                 [] st = 200 ->
                      /\ bling_oauth' = [bling_oauth EXCEPT ![nome_conta] = @ + 1]
                      /\ renovado(t, nome_conta, bling_oauth[nome_conta] + 1, db_modes)
                      /\ TOKEN_LOCK' = 0
                 [] st \in {400, 401} ->
                      /\ TOKEN_CACHE' = TOKEN_CACHE
                      /\ token_return(t, NoToken, tok_io[t])
                      /\ TOKEN_LOCK' = 0
                      /\ UNCHANGED <<bling_contas, bling_oauth>>
                 [] OTHER ->
                      /\ token_return(t, NoToken, tok_io[t])
                      /\ TOKEN_LOCK' = 0
                      /\ UNCHANGED <<TOKEN_CACHE, bling_contas, bling_oauth>>
    /\ UNCHANGED <<now, store_vars, nseq, committed, http_resp>>

\* one requests.post of the refresh loop and the branch its status selects
TokPost(t, statuses, db_modes) ==
    /\ pc[t] = "tok_post"
    /\ LET nome_conta    == task[t].conta_bling
           refresh_token == bling_contas[nome_conta].refresh_token
       IN /\ posts[nome_conta] < MaxPosts
          /\ posts' = [posts EXCEPT ![nome_conta] = @ + 1]
          /\ \E st \in respostas_token(nome_conta, refresh_token, statuses) :
               CASE st = 429 ->
                      /\ pc' = [pc EXCEPT ![t] = "tok_sleep"]
                      /\ tok_io' = [tok_io EXCEPT ![t] = @ \cup {"post"}]
                      /\ UNCHANGED <<TOKEN_LOCK, TOKEN_CACHE, bling_contas,
                                     bling_oauth, task, full_data, token,
                                     current_ts, attempt, tentativa, call_site,
                                     conn, processing_queue>>
                 [] st = 200 ->
                      /\ bling_oauth' = [bling_oauth EXCEPT ![nome_conta] = @ + 1]
                      /\ renovado(t, nome_conta, bling_oauth[nome_conta] + 1, db_modes)
                      /\ TOKEN_LOCK' = 0
                 [] st \in {400, 401} ->
                      /\ TOKEN_CACHE' = Del(TOKEN_CACHE, nome_conta)
                      /\ token_return(t, NoToken, tok_io[t])
                      /\ TOKEN_LOCK' = 0
                      /\ UNCHANGED <<bling_contas, bling_oauth>>
                 [] OTHER ->
                      /\ token_return(t, NoToken, tok_io[t])
                      /\ TOKEN_LOCK' = 0
                      /\ UNCHANGED <<TOKEN_CACHE, bling_contas, bling_oauth>>
    /\ UNCHANGED <<now, store_vars, nseq, committed, http_resp>>

\* a refresh loop without a ceiling: after each sleep the POST is sent again
TokWake_sem_teto(t) ==
    /\ pc[t] = "tok_sleep"
    /\ now + SleepToken429 <= MaxTicks * TickLen
    /\ now' = now + SleepToken429
    /\ pc'      = [pc EXCEPT ![t] = "tok_post"]
    /\ attempt' = [attempt EXCEPT ![t] = @ + 1]
    /\ UNCHANGED <<TOKEN_LOCK, task, full_data, token, current_ts,
                   tentativa, call_site, tok_io, conn, processing_queue>>
    /\ UNCHANGED <<TOKEN_CACHE, bling_contas, bling_oauth, posts, store_vars,
                   nseq, committed, http_resp>>

\* time.sleep(60) after a 429, then the next turn of "for attempt in range(3)"
TokWake(t) ==
    /\ pc[t] = "tok_sleep"
    /\ now + SleepToken429 <= MaxTicks * TickLen
    /\ now' = now + SleepToken429
    /\ IF attempt[t] + 1 < max_retries_token
       THEN /\ pc'      = [pc EXCEPT ![t] = "tok_post"]
            /\ attempt' = [attempt EXCEPT ![t] = @ + 1]
            /\ UNCHANGED <<TOKEN_LOCK, task, full_data, token, current_ts,
                           tentativa, call_site, tok_io, conn, processing_queue>>
       ELSE /\ token_return(t, NoToken, tok_io[t])
            /\ TOKEN_LOCK' = 0
    /\ UNCHANGED <<TOKEN_CACHE, bling_contas, bling_oauth, posts, store_vars,
                   nseq, committed, http_resp>>

(***************************************************************************)
(* API client: get_api_details_v3.                                         *)
(***************************************************************************)
\* the endpoint the worker passes for the task's event kind
endpoint(event_type) ==
    IF startswith_order(event_type) THEN "pedidos/vendas" ELSE "produtos"

\* one requests.get of the while loop and the branch its outcome selects;
\* docs[endpoint] are the documents the ERP may hold for an entity
ApiGet(t, statuses, docs) ==
    /\ pc[t] = "api_get"
    /\ IF tentativa[t] > max_tentativas
       THEN erro_generico(t)              \* "Max tentativas API excedido"
       ELSE \E st \in statuses :
              CASE st = 200 ->
                     \E doc \in docs[endpoint(task[t].event_type)] :
                        /\ Get(doc, "id", task[t].entity_id) = task[t].entity_id
                        /\ full_data' = [full_data EXCEPT ![t] = doc]
                        /\ pc' = [pc EXCEPT ![t] = "db_conn"]
                        /\ UNCHANGED <<task, token, current_ts, attempt, tentativa,
                                       call_site, tok_io, conn, processing_queue>>
                [] st = 429 ->
                     /\ pc' = [pc EXCEPT ![t] = "api_sleep60"]
                     /\ UNCHANGED <<task, full_data, token, current_ts, attempt,
                                    tentativa, call_site, tok_io, conn, processing_queue>>
                [] st = 404 ->
                     /\ full_data' = [full_data EXCEPT ![t] = EmptyDoc]
                     /\ pc' = [pc EXCEPT ![t] = "db_conn"]
                     /\ UNCHANGED <<task, token, current_ts, attempt, tentativa,
                                    call_site, tok_io, conn, processing_queue>>
                [] st = 401 ->
                     /\ pc' = [pc EXCEPT ![t] = "api_401"]
                     /\ UNCHANGED <<task, full_data, token, current_ts, attempt,
                                    tentativa, call_site, tok_io, conn, processing_queue>>
                [] st >= 500 ->           \* 5xx, and 599 for a RequestException
                     /\ pc' = [pc EXCEPT ![t] = "api_sleep5"]
                     /\ UNCHANGED <<task, full_data, token, current_ts, attempt,
                                    tentativa, call_site, tok_io, conn, processing_queue>>
                [] OTHER ->               \* "Erro API Fatal"
                     erro_generico(t)
    /\ UNCHANGED <<now, token_vars, store_vars, nseq, committed, http_resp>>

\* time.sleep(60) after a 429, then "continue"
ApiWake60(t) ==
    /\ pc[t] = "api_sleep60"
    /\ now + SleepApi429 <= MaxTicks * TickLen
    /\ now' = now + SleepApi429
    /\ pc'  = [pc EXCEPT ![t] = "api_get"]
    /\ UNCHANGED <<task, full_data, token, current_ts, attempt, tentativa,
                   call_site, tok_io, conn, processing_queue, token_vars, store_vars,
                   nseq, committed, http_resp>>

\* time.sleep(5) after a 5xx or a RequestException, then "continue"
ApiWake5(t) ==
    /\ pc[t] = "api_sleep5"
    /\ pc' = [pc EXCEPT ![t] = "api_get"]
    /\ UNCHANGED <<now, task, full_data, token, current_ts, attempt, tentativa,
                   call_site, tok_io, conn, processing_queue, token_vars, store_vars,
                   nseq, committed, http_resp>>

\* after a 401: "with TOKEN_LOCK: del TOKEN_CACHE[nome_conta]"
Api401(t) ==
    /\ pc[t] = "api_401"
    /\ lock_livre(TOKEN_LOCK)
    /\ TOKEN_CACHE' = Del(TOKEN_CACHE, task[t].conta_bling)
    /\ pc' = [pc EXCEPT ![t] = "api_sleep2"]
    /\ UNCHANGED <<now, TOKEN_LOCK, bling_contas, bling_oauth, posts, task,
                   full_data, token, current_ts, attempt, tentativa, call_site, tok_io,
                   conn, processing_queue, store_vars, nseq, committed, http_resp>>

\* time.sleep(2), then the second call of get_bling_token_for_account, which
\* reads time.time()
ApiRenew(t) ==
    /\ pc[t] = "api_sleep2"
    /\ pc' = [pc EXCEPT ![t] = "tok_lock"]
    /\ call_site'  = [call_site EXCEPT ![t] = "after401"]
    /\ current_ts' = [current_ts EXCEPT ![t] = now]
    /\ tok_io'     = [tok_io EXCEPT ![t] = {}]
    /\ UNCHANGED <<now, task, full_data, token, attempt, tentativa, conn,
                   processing_queue, token_vars, store_vars, nseq, committed,
                   http_resp>>

(***************************************************************************)
(* Worker loop: worker_processamento.                                      *)
(***************************************************************************)
\* the kinds for which step 1 calls get_api_details_v3
busca_api(event_type) ==
    \/ startswith_order(event_type)
    \/ startswith_product(event_type)
    \/ event_type = "stock.updated"

\* processing_queue.get() and step 1 up to the call of get_api_details_v3,
\* whose first statement calls get_bling_token_for_account (time.time())
Dequeue(t) ==
    /\ pc[t] = "get"
    /\ processing_queue # <<>>
    /\ LET tk == Head(processing_queue)
       IN /\ processing_queue' = Tail(processing_queue)
          /\ IF tk.event_type = None
             THEN \* None has no startswith: AttributeError
                  task_done(t)
             ELSE /\ task' = [task EXCEPT ![t] = tk]
                  /\ pc' = [pc EXCEPT ![t] =
                               IF busca_api(tk.event_type)
                               THEN "tok_lock" ELSE "db_conn"]
                  /\ current_ts' = [current_ts EXCEPT ![t] =
                                       IF busca_api(tk.event_type) THEN now ELSE @]
                  /\ UNCHANGED <<full_data, token, attempt, tentativa,
                                 call_site, tok_io, conn>>
    /\ UNCHANGED <<now, token_vars, store_vars, nseq, committed, http_resp>>

\* step 2: get_db_connection(); without one the task is put back
DbConn(t, db_modes) ==
    /\ pc[t] = "db_conn"
    /\ \E mode \in db_modes :
         IF mode = "ok"
         THEN /\ conn' = [conn EXCEPT ![t] = TRUE]
              /\ pc' = [pc EXCEPT ![t] = "uow"]
              /\ UNCHANGED <<task, full_data, token, current_ts, attempt,
                             tentativa, call_site, tok_io, processing_queue>>
         ELSE /\ processing_queue' = Append(processing_queue, task[t])
              /\ task_done(t)
    /\ UNCHANGED <<now, token_vars, store_vars, nseq, committed, http_resp>>

\* the statements of the unit of work, on a snapshot of the store
unidade(db, tk, doc, clock) ==
    LET depois ==
          IF startswith_order(tk.event_type)
          THEN atualizar_dashboard(db, tk.entity_id, tk.conta_bling,
                                   tk.event_type, doc, tk.payload_date, clock)
          ELSE IF (startswith_product(tk.event_type)
                   \/ tk.event_type = "stock.updated") /\ doc # EmptyDoc
          THEN processar_produto_completo(db, doc, tk.conta_bling, clock)
          ELSE db
    IN [depois EXCEPT !.eventos_bling = salvar_log(@, tk, clock)]

\* full_data['id'] of a product document without an id raises KeyError
unidade_levanta(tk, doc) ==
    /\ startswith_product(tk.event_type) \/ tk.event_type = "stock.updated"
    /\ doc # EmptyDoc
    /\ "id" \notin DOMAIN doc

\* the unit of work: the upsert, the event log, conn.commit(); on an exception
\* conn.rollback() and the requeue; conn.close() in the "finally".  With the
\* connection lost conn.rollback() raises too and the requeue is not reached.
Uow(t, db_modes) ==
    /\ pc[t] = "uow"
    /\ \E mode \in db_modes :
         CASE mode = "ok" /\ ~unidade_levanta(task[t], full_data[t]) ->
                LET db == unidade(Db, task[t], full_data[t], now)
                IN /\ pedidos'         = db.pedidos
                   /\ fat_itens_venda' = db.fat_itens_venda
                   /\ dim_produtos'    = db.dim_produtos
                   /\ dim_estrutura'   = db.dim_estrutura
                   /\ eventos_bling'   = db.eventos_bling
                   /\ committed' = committed \cup {task[t].seq}
                   /\ task_done(t)
                   /\ UNCHANGED processing_queue
           [] mode = "lost" ->
                /\ erro_generico(t)
                /\ UNCHANGED <<store_vars, committed>>
           [] OTHER ->
                /\ processing_queue' = Append(processing_queue, task[t])
                /\ task_done(t)
                /\ UNCHANGED <<store_vars, committed>>
    /\ UNCHANGED <<now, token_vars, nseq, http_resp>>

(***************************************************************************)
(* Ingress: handle_bling_webhook.                                          *)
(***************************************************************************)
BadJson == [invalid_json |-> TRUE]     \* a body request.get_json() cannot parse

\* Python's truth test on an id
truthy(x) == x # NullNum /\ x # 0

JsonNull == [json_null |-> TRUE]       \* JSON null where an object is expected

\* "not conta_bling": no "conta" parameter, or an empty one
sem_conta(conta_bling) == conta_bling = None \/ conta_bling = ""

\* the calls of .get on None that raise AttributeError: payload['data'] is
\* null, or data has no truthy id and data['produto'] is null
get_em_none(payload) ==
    LET data_obj == Get(payload, "data", EmptyDoc)
    IN \/ data_obj = JsonNull
       \/ /\ ~truthy(Get(data_obj, "id", NullNum))
          /\ Get(data_obj, "produto", EmptyDoc) = JsonNull

\* data_obj.get('id') or data_obj.get('produto', {}).get('id')
extrai_id(data_obj) ==
    IF truthy(Get(data_obj, "id", NullNum))
    THEN data_obj.id
    ELSE Get(Get(data_obj, "produto", EmptyDoc), "id", NullNum)

\* one POST /webhook-bling?conta=<conta_bling> with body payload
handle_bling_webhook(contas, payloads) ==
    /\ \E conta_bling \in contas, payload \in payloads :
         IF sem_conta(conta_bling)
         THEN /\ http_resp' = <<400, [status |-> "error"]>>
              /\ UNCHANGED <<processing_queue, nseq>>
         ELSE IF payload = BadJson \/ payload = EmptyDoc
         THEN /\ http_resp' = <<400, [message |-> "JSON"]>>
              /\ UNCHANGED <<processing_queue, nseq>>
         ELSE IF get_em_none(payload)
         THEN \* the AttributeError leaves the view: Flask answers 500
              /\ http_resp' = <<500, [message |-> "Internal Server Error"]>>
              /\ UNCHANGED <<processing_queue, nseq>>
         ELSE LET event_type == Get(payload, "event", None)
                  data_obj   == Get(payload, "data", EmptyDoc)
                  entity_id  == extrai_id(data_obj)
              IN IF ~truthy(entity_id)
                 THEN /\ http_resp' = <<200, [message |-> "ID nao encontrado"]>>
                      /\ UNCHANGED <<processing_queue, nseq>>
                 ELSE /\ nseq < MaxTasks
                      /\ nseq' = nseq + 1
                      /\ processing_queue' = Append(processing_queue,
                             [seq          |-> nseq + 1,
                              entity_id    |-> entity_id,
                              conta_bling  |-> conta_bling,
                              event_type   |-> event_type,
                              payload_date |-> Get(payload, "date", NULL),
                              raw_data     |-> data_obj])
                      /\ http_resp' = <<200, [status |-> "queued"]>>
    /\ UNCHANGED <<now, token_vars, store_vars, pc, task, full_data, token,
                   current_ts, attempt, tentativa, call_site, tok_io, conn, committed>>

(***************************************************************************)
(* The clock.                                                              *)
(***************************************************************************)
Tick ==
    /\ now + TickLen <= MaxTicks * TickLen
    /\ now' = now + TickLen
    /\ UNCHANGED <<processing_queue, token_vars, store_vars, pc, task, full_data,
                   token, current_ts, attempt, tentativa, call_site, tok_io, conn, nseq,
                   committed, http_resp>>

(***************************************************************************)
(* The state at start-up: module level of webhook_fila.py, over a store    *)
(* that holds the accounts' credentials and no order, product or event.    *)
(***************************************************************************)
Contas == {"c1"}                       \* accounts with a row in bling_contas

ExpiraEm == {0, 2 * 60 + 30}           \* expires_at of the stored token

InitLocals ==
    /\ pc         = [t \in Threads |-> "get"]
    /\ task       = [t \in Threads |-> NoTask]
    /\ full_data  = [t \in Threads |-> EmptyDoc]
    /\ token      = [t \in Threads |-> NoToken]
    /\ current_ts = [t \in Threads |-> 0]
    /\ attempt    = [t \in Threads |-> 0]
    /\ tentativa  = [t \in Threads |-> 1]
    /\ call_site  = [t \in Threads |-> "first"]
    /\ tok_io     = [t \in Threads |-> {}]
    /\ conn       = [t \in Threads |-> FALSE]

InitTokens(expira) ==
    /\ TOKEN_CACHE = EmptyDoc
    /\ TOKEN_LOCK = 0
    /\ \E e \in expira :
         bling_contas = [c \in Contas |->
                            [access_token  |-> AccessToken(0),
                             refresh_token |-> <<"rt", 0>>,
                             expires_at    |-> e]]
    /\ bling_oauth = [c \in Contas |-> 0]
    /\ posts = [c \in Contas |-> 0]

InitStore ==
    /\ pedidos = EmptyDoc
    /\ fat_itens_venda = {}
    /\ dim_produtos = EmptyDoc
    /\ dim_estrutura = {}
    /\ eventos_bling = EmptyDoc

InitWith(expira) ==
    /\ now = 0
    /\ processing_queue = <<>>
    /\ InitTokens(expira)
    /\ InitStore
    /\ InitLocals
    /\ nseq = 0
    /\ committed = {}
    /\ http_resp = <<0, EmptyDoc>>

Init == InitWith(ExpiraEm)

(***************************************************************************)
(* What the environment feeds in.                                          *)
(***************************************************************************)
Linha(codigo, descricao, quantidade, valor) ==
    [codigo |-> codigo, descricao |-> descricao, quantidade |-> quantidade,
     valor |-> valor]

PedidoA == [id |-> 1, data |-> Date(1), situacao |-> [id |-> 6],
            loja |-> [id |-> 5], numero |-> 100, numeroLoja |-> 200,
            total |-> 50,
            itens |-> <<Linha("A", "a", 2, 10), Linha("A", "a2", 3, 11),
                        Linha("B", "b", 1, 20)>>]

PedidoB == [id |-> 1, data |-> Date(2), situacao |-> [id |-> 9],
            loja |-> [id |-> 7], numero |-> 101, numeroLoja |-> 201,
            total |-> 70,
            itens |-> <<Linha("B", "b", 4, 20)>>]

Webhook(event, id, date) == [event |-> event, data |-> [id |-> id], date |-> date]

\* the status codes of the ERP; 599 stands for a requests RequestException
GetStatuses  == {200, 404, 429, 500, 401, 403, 599}
PostStatuses == {429, 401, 500}
DbModes      == {"ok", "erro", "lost"}

(***************************************************************************)
(* The program: one worker thread, the ingress, the clock.                 *)
(***************************************************************************)
Workers == {1}

Payloads == {Webhook("order.updated", 1, Date(7)),
             Webhook("order.deleted", 1, NULL)}

Docs == [e \in {"pedidos/vendas", "produtos"} |->
            IF e = "pedidos/vendas" THEN {PedidoA, PedidoB} ELSE {}]

Next ==
    \/ handle_bling_webhook({"c1", "c0"}, Payloads)
    \/ Tick
    \/ \E t \in Workers :
         \/ Dequeue(t)
         \/ TokEnter(t)
         \/ TokDb(t, DbModes)
         \/ TokPost(t, PostStatuses, DbModes)
         \/ TokWake(t)
         \/ ApiGet(t, GetStatuses, Docs)
         \/ ApiWake60(t)
         \/ ApiWake5(t)
         \/ Api401(t)
         \/ ApiRenew(t)
         \/ DbConn(t, DbModes)
         \/ Uow(t, DbModes)

Spec == Init /\ [][Next]_vars

(***************************************************************************)
(* A pool of two worker threads over the same queue, cache and lock: the   *)
(* concurrent callers of get_bling_token_for_account.  The ERP answers the *)
(* GET with 200 or 401 and the refresh with 429 or by the protocol.        *)
(***************************************************************************)
Pool == {1, 2}

PoolPayloads == {Webhook("order.updated", 1, Date(7))}

PoolDocs == [e \in {"pedidos/vendas", "produtos"} |->
                IF e = "pedidos/vendas" THEN {PedidoA} ELSE {}]

PoolDbModes == {"ok", "erro"}          \* the store under the token manager

PoolUowModes == {"ok"}                 \* the store under the worker's step 2

NextPool ==
    \/ handle_bling_webhook({"c1"}, PoolPayloads)
    \/ Tick
    \/ \E t \in Pool :
         \/ Dequeue(t)
         \/ TokEnter(t)
         \/ TokDb(t, PoolDbModes)
         \/ TokPost(t, {429}, PoolDbModes)
         \/ TokWake(t)
         \/ ApiGet(t, {200, 401}, PoolDocs)
         \/ Api401(t)
         \/ ApiRenew(t)
         \/ DbConn(t, PoolUowModes)
         \/ Uow(t, PoolUowModes)

SpecPool == Init /\ [][NextPool]_vars

(***************************************************************************)
(* The pool with every stored token expired at start-up and an ERP that    *)
(* answers each refresh by the protocol alone: 200 to the current refresh  *)
(* token.                                                                  *)
(***************************************************************************)
NextPool200 ==
    \/ handle_bling_webhook({"c1"}, PoolPayloads)
    \/ Tick
    \/ \E t \in Pool :
         \/ Dequeue(t)
         \/ TokEnter(t)
         \/ TokDb(t, PoolDbModes)
         \/ TokPost(t, {}, PoolDbModes)
         \/ ApiGet(t, {200, 401}, PoolDocs)
         \/ Api401(t)
         \/ ApiRenew(t)
         \/ DbConn(t, PoolUowModes)
         \/ Uow(t, PoolUowModes)

SpecPool200 == InitWith({0}) /\ [][NextPool200]_vars

(***************************************************************************)
(* The record processor on every line list: the worker holds a fetched     *)
(* order document, whose lines are drawn from LinhasIn, and is about to    *)
(* run its unit of work.                                                   *)
(***************************************************************************)
LinhasIn ==
    {Linha(c, d, q, v) : c \in {"A", "B"}, d \in {"a", "b"}, q \in {1, 2}, v \in {10}}
    \cup {[codigo |-> "B"], [descricao |-> "b", quantidade |-> 2, valor |-> 20]}

SeqsUpTo(S, n) == UNION {[1..k -> S] : k \in 0..n}

TaskItens == [seq |-> 1, entity_id |-> 1, conta_bling |-> "c1",
              event_type |-> "order.updated", payload_date |-> Date(7),
              raw_data |-> [id |-> 1]]

\* the store before the unit of work: empty, or holding order 1 as an
\* earlier order.created wrote it from PedidoA
StoreVazio == [pedidos |-> EmptyDoc, fat_itens_venda |-> {},
               dim_produtos |-> EmptyDoc, dim_estrutura |-> {},
               eventos_bling |-> EmptyDoc]

StoreComPedidoA ==
    atualizar_dashboard(StoreVazio, 1, "c1", "order.created", PedidoA, Date(7), 0)

InitItens ==
    /\ now = 0
    /\ processing_queue = <<>>
    /\ InitTokens({ExpiresIn})
    /\ \E db0 \in {StoreVazio, StoreComPedidoA} :
          /\ pedidos = db0.pedidos
          /\ fat_itens_venda = db0.fat_itens_venda
          /\ dim_produtos = db0.dim_produtos
          /\ dim_estrutura = db0.dim_estrutura
          /\ eventos_bling = db0.eventos_bling
    /\ pc         = [t \in Threads |-> IF t = 1 THEN "uow" ELSE "get"]
    /\ task       = [t \in Threads |-> IF t = 1 THEN TaskItens ELSE NoTask]
    /\ \E itens \in SeqsUpTo(LinhasIn, MaxLines) :
          full_data = [t \in Threads |->
                          IF t = 1
                          THEN [id |-> 1, data |-> Date(1), itens |-> itens]
                          ELSE EmptyDoc]
    /\ token      = [t \in Threads |-> IF t = 1 THEN AccessToken(0) ELSE NoToken]
    /\ current_ts = [t \in Threads |-> 0]
    /\ attempt    = [t \in Threads |-> 0]
    /\ tentativa  = [t \in Threads |-> 1]
    /\ call_site  = [t \in Threads |-> "first"]
    /\ tok_io     = [t \in Threads |-> IF t = 1 THEN {"select"} ELSE {}]
    /\ conn       = [t \in Threads |-> t = 1]
    /\ nseq = 1
    /\ committed = {}
    /\ http_resp = <<200, [status |-> "queued"]>>

NextItens == Uow(1, {"ok", "erro"})

SpecItens == InitItens /\ [][NextItens]_vars

(***************************************************************************)
(* The product path: one worker, notifications for product 5 of account    *)
(* c1, over a store that already holds products and structure edges of     *)
(* another parent and of another account.                                  *)
(***************************************************************************)
Comp(id_filho, quantidade) == [produto |-> [id |-> id_filho], quantidade |-> quantidade]

ProdKit == [id |-> 5, codigo |-> "K", nome |-> "kit", formato |-> "E",
            estoque |-> <<"dict", [saldoVirtualTotal |-> 3]>>,
            fornecedor |-> [precoCusto |-> 8],
            estrutura |-> [componentes |-> <<Comp(6, 2), Comp(7, 1)>>]]

ProdKitB == [id |-> 5, codigo |-> "K", nome |-> "kit", formato |-> "E",
             estoque |-> <<"num", 4>>,
             estrutura |-> [componentes |-> <<Comp(7, 3)>>]]

ProdKitVazio == [id |-> 5, codigo |-> "K", nome |-> "kit",
                 estrutura |-> [componentes |-> <<>>]]

ProdSimples == [id |-> 5, codigo |-> "K", nome |-> "simples", preco |-> 30]

ProdOutroPai == [id |-> 9, codigo |-> "Z",
                 estrutura |-> [componentes |-> <<Comp(6, 1)>>]]

ProdTask(event, id, conta) ==
    [seq |-> 0, entity_id |-> id, conta_bling |-> conta, event_type |-> event,
     payload_date |-> Date(7), raw_data |-> [id |-> id]]

\* the store after product.created of parent 9 for c1 and of parent 5 for c2
StoreProd ==
    unidade(unidade(StoreVazio, ProdTask("product.created", 9, "c1"), ProdOutroPai, 0),
            ProdTask("product.created", 5, "c2"), ProdKit, 0)

ProdPayloads == {Webhook("product.updated", 5, Date(7)),
                 [event |-> "stock.updated", data |-> [produto |-> [id |-> 5]],
                  date |-> Date(8)]}

ProdDocs == [e \in {"pedidos/vendas", "produtos"} |->
                IF e = "produtos"
                THEN {ProdKit, ProdKitB, ProdKitVazio, ProdSimples} ELSE {}]

InitProd ==
    /\ now = 0
    /\ processing_queue = <<>>
    /\ InitTokens(ExpiraEm)
    /\ pedidos = StoreProd.pedidos
    /\ fat_itens_venda = StoreProd.fat_itens_venda
    /\ dim_produtos = StoreProd.dim_produtos
    /\ dim_estrutura = StoreProd.dim_estrutura
    /\ eventos_bling = StoreProd.eventos_bling
    /\ InitLocals
    /\ nseq = 0
    /\ committed = {}
    /\ http_resp = <<0, EmptyDoc>>

NextProd ==
    \/ handle_bling_webhook({"c1"}, ProdPayloads)
    \/ Tick
    \/ \E t \in Workers :
         \/ Dequeue(t)
         \/ TokEnter(t)
         \/ TokDb(t, {"ok"})
         \/ TokPost(t, {}, {"ok"})
         \/ ApiGet(t, {200, 404}, ProdDocs)
         \/ DbConn(t, {"ok", "erro"})
         \/ Uow(t, {"ok", "erro"})

SpecProd == InitProd /\ [][NextProd]_vars

(***************************************************************************)
(* The worker under an ERP whose entity GET may fail on the server side    *)
(* (5xx) or on the network (599) as often as it likes.  The worker thread  *)
(* runs whenever it can: weak fairness on its steps.                       *)
(***************************************************************************)
RetryStatuses == {200, 500, 599}

PassoRetry(t) ==
    \/ Dequeue(t)
    \/ TokEnter(t)
    \/ TokDb(t, {"ok"})
    \/ TokPost(t, {}, {"ok"})
    \/ ApiGet(t, RetryStatuses, PoolDocs)
    \/ ApiWake5(t)
    \/ DbConn(t, {"ok"})
    \/ Uow(t, {"ok"})

NextRetry ==
    \/ handle_bling_webhook({"c1"}, Payloads)
    \/ \E t \in Workers : PassoRetry(t)

SpecRetry ==
    /\ Init
    /\ [][NextRetry]_vars
    /\ WF_vars(\E t \in Workers : PassoRetry(t))

(***************************************************************************)
(* The ingress alone, under every kind of request: account absent or       *)
(* empty, body unparsable or empty, data with or without an id, the id     *)
(* under data.produto, id 0, data or data.produto null.                    *)
(***************************************************************************)
IngressContas == {"c1", None, ""}

IngressPayloads ==
    {BadJson, EmptyDoc,
     Webhook("order.updated", 1, Date(7)),
     Webhook("order.created", 0, Date(7)),
     [event |-> "stock.updated", data |-> [produto |-> [id |-> 5]], date |-> Date(8)],
     [event |-> "stock.updated", data |-> [produto |-> EmptyDoc]],
     [event |-> "product.updated", data |-> [codigo |-> "K"]],
     [event |-> "product.updated"],
     [data |-> [id |-> 2]],
     [event |-> "order.updated", data |-> JsonNull],
     [event |-> "stock.updated", data |-> [produto |-> JsonNull]]}

NextIngress ==
    \/ handle_bling_webhook(IngressContas, IngressPayloads)
    \/ Tick

SpecIngress == Init /\ [][NextIngress]_vars

(***************************************************************************)
(* The unit of work under failure: one worker, order and product           *)
(* notifications, documents among which an order with a line whose         *)
(* quantity is null, and a store whose statements may raise.               *)
(***************************************************************************)
PedidoRuim == [id |-> 1, data |-> Date(2), situacao |-> [id |-> 9],
               loja |-> [id |-> 7], numero |-> 101, numeroLoja |-> 201,
               total |-> 70,
               itens |-> <<Linha("B", "b", 4, 20), Linha("C", "c", NullNum, 5)>>]

AtomPayloads == {Webhook("order.updated", 1, Date(7)),
                 Webhook("order.updated", 1, Date(8)),
                 Webhook("product.updated", 5, Date(7))}

AtomDocs == [e \in {"pedidos/vendas", "produtos"} |->
                IF e = "pedidos/vendas" THEN {PedidoA, PedidoRuim}
                ELSE {ProdKit, ProdSimples}]

NextAtom ==
    \/ handle_bling_webhook({"c1"}, AtomPayloads)
    \/ Tick
    \/ \E t \in Workers :
         \/ Dequeue(t)
         \/ TokEnter(t)
         \/ TokDb(t, {"ok"})
         \/ TokPost(t, {}, {"ok"})
         \/ ApiGet(t, {200}, AtomDocs)
         \/ DbConn(t, {"ok", "erro"})
         \/ Uow(t, {"ok", "erro"})

SpecAtom == Init /\ [][NextAtom]_vars

(***************************************************************************)
(* The token manager under every answer of the ERP to a refresh: one       *)
(* worker, tasks of account c1 whose stored and cached tokens are expired, *)
(* next to an account c2 with a valid cache entry.  The clock starts one   *)
(* back-off interval before 0, so that three 429 sleeps fit under the      *)
(* clock's bound.                                                          *)
(***************************************************************************)
TokenStatuses == {429, 400, 401, 403, 500}

TokenDbModes == {"ok", "erro"}

InitToken ==
    /\ now = 0 - SleepToken429
    /\ processing_queue = <<>>
    /\ TOKEN_CACHE = [c \in {"c1", "c2"} |->
                         IF c = "c1"
                         THEN [token |-> AccessToken(0), expires_at |-> 0]
                         ELSE [token |-> <<"at", "c2">>, expires_at |-> ExpiresIn]]
    /\ TOKEN_LOCK = 0
    /\ bling_contas = [c \in {"c1", "c2"} |->
                          IF c = "c1"
                          THEN [access_token  |-> AccessToken(0),
                                refresh_token |-> <<"rt", 0>>,
                                expires_at    |-> 0]
                          ELSE [access_token  |-> <<"at", "c2">>,
                                refresh_token |-> <<"rt", 0>>,
                                expires_at    |-> ExpiresIn]]
    /\ bling_oauth = [c \in {"c1", "c2"} |-> 0]
    /\ posts = [c \in {"c1", "c2"} |-> 0]
    /\ InitStore
    /\ InitLocals
    /\ nseq = 0
    /\ committed = {}
    /\ http_resp = <<0, EmptyDoc>>

NextToken ==
    \/ handle_bling_webhook({"c1"}, Payloads)
    \/ \E t \in Workers :
         \/ Dequeue(t)
         \/ TokEnter(t)
         \/ TokDb(t, TokenDbModes)
         \/ TokPost(t, TokenStatuses, TokenDbModes)
         \/ TokWake(t)
         \/ ApiGet(t, {200}, Docs)
         \/ DbConn(t, {"ok"})
         \/ Uow(t, {"ok"})

SpecToken == InitToken /\ [][NextToken]_vars

(***************************************************************************)
(* The replacement of line items next to another order: one worker,        *)
(* notifications for orders 1 and 2 over a store that already holds both   *)
(* with their line items; the ERP answers with documents with and without  *)
(* a line list, with a line whose quantity is null, or with 404.           *)
(***************************************************************************)
PedidoSemItens == [id |-> 1, data |-> Date(2), situacao |-> [id |-> 9],
                   loja |-> [id |-> 7], numero |-> 101, numeroLoja |-> 201,
                   total |-> 0]

PedidoOutro == [id |-> 2, data |-> Date(1), situacao |-> [id |-> 6],
                loja |-> [id |-> 5], numero |-> 102, numeroLoja |-> 202,
                total |-> 30,
                itens |-> <<Linha("A", "a", 1, 10), Linha("C", "c", 2, 10)>>]

StoreDoisPedidos ==
    atualizar_dashboard(StoreComPedidoA, 2, "c1", "order.created", PedidoOutro,
                        Date(7), 0)

ReplPayloads == {Webhook("order.updated", 1, Date(8)),
                 Webhook("order.created", 2, Date(8))}

ReplDocs == [e \in {"pedidos/vendas", "produtos"} |->
                IF e = "pedidos/vendas"
                THEN {PedidoA, PedidoB, PedidoRuim, PedidoSemItens}
                ELSE {}]

InitRepl ==
    /\ now = 0
    /\ processing_queue = <<>>
    /\ InitTokens({ExpiresIn})
    /\ pedidos = StoreDoisPedidos.pedidos
    /\ fat_itens_venda = StoreDoisPedidos.fat_itens_venda
    /\ dim_produtos = StoreDoisPedidos.dim_produtos
    /\ dim_estrutura = StoreDoisPedidos.dim_estrutura
    /\ eventos_bling = StoreDoisPedidos.eventos_bling
    /\ InitLocals
    /\ nseq = 0
    /\ committed = {}
    /\ http_resp = <<0, EmptyDoc>>

NextRepl ==
    \/ handle_bling_webhook({"c1"}, ReplPayloads)
    \/ \E t \in Workers :
         \/ Dequeue(t)
         \/ TokEnter(t)
         \/ TokDb(t, {"ok"})
         \/ ApiGet(t, {200, 404}, ReplDocs)
         \/ DbConn(t, {"ok", "erro"})
         \/ Uow(t, {"ok", "erro"})

SpecRepl == InitRepl /\ [][NextRepl]_vars

(***************************************************************************)
(* The worker loop under every outcome of a task whose fetch terminates:   *)
(* the refresh is rejected or its store write raises, the GET is answered  *)
(* 200, 404 or 403, the task has no event kind, the store refuses the      *)
(* connection, raises in the unit of work or is lost at the rollback.  The *)
(* worker thread runs whenever it can: weak fairness on its steps.         *)
(***************************************************************************)
VivoPayloads == {Webhook("order.updated", 1, Date(7)),
                 Webhook("order.deleted", 1, NULL),
                 [data |-> [id |-> 2]]}

VivoGetStatuses == {200, 404, 403}

VivoPostStatuses == {400, 500}

PassoVivo(t) ==
    \/ Dequeue(t)
    \/ TokEnter(t)
    \/ TokDb(t, {"ok", "erro"})
    \/ TokPost(t, VivoPostStatuses, {"ok", "erro"})
    \/ ApiGet(t, VivoGetStatuses, Docs)
    \/ DbConn(t, {"ok", "erro"})
    \/ Uow(t, DbModes)

NextVivo ==
    \/ handle_bling_webhook({"c1"}, VivoPayloads)
    \/ \E t \in Workers : PassoVivo(t)

SpecVivo ==
    /\ Init
    /\ [][NextVivo]_vars
    /\ WF_vars(\E t \in Workers : PassoVivo(t))

(***************************************************************************)
(* Two callers of the token manager behind the one TOKEN_LOCK: tasks of    *)
(* account c2, whose stored token is expired and whose refresh the ERP may *)
(* answer with 429, next to tasks of account c1, whose stored token is     *)
(* valid for 150 s.  Time passes only in the 429 sleeps.                   *)
(***************************************************************************)
EsperaContas == {"c1", "c2"}

EsperaPayloads == {Webhook("order.updated", 1, Date(7))}

InitEspera ==
    /\ now = 0
    /\ processing_queue = <<>>
    /\ TOKEN_CACHE = EmptyDoc
    /\ TOKEN_LOCK = 0
    /\ bling_contas = [c \in EsperaContas |->
                          [access_token  |-> <<"at", c>>,
                           refresh_token |-> <<"rt", 0>>,
                           expires_at    |-> IF c = "c1" THEN 2 * 60 + 30 ELSE 0]]
    /\ bling_oauth = [c \in EsperaContas |-> 0]
    /\ posts = [c \in EsperaContas |-> 0]
    /\ InitStore
    /\ InitLocals
    /\ nseq = 0
    /\ committed = {}
    /\ http_resp = <<0, EmptyDoc>>

NextEspera ==
    \/ handle_bling_webhook(EsperaContas, EsperaPayloads)
    \/ \E t \in Pool :
         \/ Dequeue(t)
         \/ TokEnter(t)
         \/ TokDb(t, {"ok"})
         \/ TokPost(t, {429, 400}, {"ok"})
         \/ TokWake(t)
         \/ ApiGet(t, {200}, PoolDocs)
         \/ DbConn(t, {"ok"})
         \/ Uow(t, {"ok"})

SpecEspera == InitEspera /\ [][NextEspera]_vars

(***************************************************************************)
(* Two notifications for order 1 and no other: first order.created or      *)
(* order.updated, then order.deleted.  One worker, an ERP that answers     *)
(* every GET with a document, a store that may refuse the connection or    *)
(* raise in the unit of work.                                              *)
(***************************************************************************)
OrdemPrimeiro == {Webhook("order.created", 1, Date(7)),
                  Webhook("order.updated", 1, Date(7))}

OrdemSegundo == {Webhook("order.deleted", 1, Date(8))}

OrdemDbModes == {"ok", "erro"}

NextOrdem ==
    \/ nseq = 0 /\ handle_bling_webhook({"c1"}, OrdemPrimeiro)
    \/ nseq = 1 /\ handle_bling_webhook({"c1"}, OrdemSegundo)
    \/ Tick
    \/ \E t \in Workers :
         \/ Dequeue(t)
         \/ TokEnter(t)
         \/ TokDb(t, {"ok"})
         \/ TokPost(t, {}, {"ok"})
         \/ ApiGet(t, {200}, Docs)
         \/ DbConn(t, OrdemDbModes)
         \/ Uow(t, OrdemDbModes)

SpecOrdem == Init /\ [][NextOrdem]_vars

(***************************************************************************)
(* Where a thread stands.                                                  *)
(***************************************************************************)
\* inside get_api_details_v3, the token acquisition included
em_api(t) == pc[t] \in {"tok_lock", "tok_db", "tok_post", "tok_sleep", "api_get",
                        "api_sleep60", "api_sleep5", "api_401", "api_sleep2"}

\* an HTTP call to the ERP in flight, or one of its backoff sleeps
em_http(t) == pc[t] \in {"tok_post", "tok_sleep", "api_get", "api_sleep60",
                         "api_sleep5", "api_sleep2"}

\* the refresh of lines 106-155: from the stored refresh token read to the
\* result persisted or given up, its 429 sleeps included
em_renovacao(t) == pc[t] \in {"tok_post", "tok_sleep"}

na_fila(k) == \E i \in DOMAIN processing_queue : processing_queue[i].seq = k

em_processamento(k) == \E t \in Threads : task[t] # NoTask /\ task[t].seq = k

(***************************************************************************)
(* C1.  No task is ever lost: every task the ingress enqueued is, at all   *)
(* later times, in the queue, being processed by the worker, or committed, *)
(* whichever step fails (token acquisition and API fetch included).        *)
(***************************************************************************)
C1_NoTaskLost ==
    \A k \in 1..nseq : na_fila(k) \/ em_processamento(k) \/ k \in committed

(***************************************************************************)
(* C2.  While the worker processes an order.deleted task it makes no       *)
(* upstream API request for it: no token acquisition and no GET.           *)
(***************************************************************************)
C2_DeletedSkipsFetch ==
    \A t \in Threads :
        (task[t] # NoTask /\ task[t].event_type = "order.deleted") => ~em_api(t)

(***************************************************************************)
(* C3.  No store connection is open while an HTTP call to the ERP (entity  *)
(* GET or token-refresh POST) or one of its backoff sleeps is in progress. *)
(***************************************************************************)
C3_NoConnDuringHttp ==
    \A t \in Threads : em_http(t) => ~conn[t]

(***************************************************************************)
(* C4.  With two threads calling get_bling_token_for_account concurrently  *)
(* for an account whose cached and stored tokens are expired, and the ERP  *)
(* answering the refresh with 200, exactly one refresh POST is sent in     *)
(* total and every caller that gets a token gets the one of that refresh.  *)
(***************************************************************************)
C4_OneRefreshPost ==
    \A c \in Contas :
        /\ posts[c] <= 1
        /\ \A t \in Threads :
              (task[t] # NoTask /\ task[t].conta_bling = c /\ token[t] # NoToken)
                  => (posts[c] = 1 /\ token[t] = bling_contas[c].access_token)

\* the part of C4 that holds: the POSTs answered 200 are at most one per
\* expiry, and a token handed out is the stored one
C4_Tokens_Stored ==
    \A c \in Contas :
        \A t \in Threads :
            (task[t] # NoTask /\ task[t].conta_bling = c /\ token[t] # NoToken)
                => token[t] = bling_contas[c].access_token

(***************************************************************************)
(* C5.  At most one token refresh is in flight per account at any moment,  *)
(* under every interleaving of the callers of get_bling_token_for_account  *)
(* and of the cache invalidation after a 401.                              *)
(***************************************************************************)
C5_OneRefreshInFlight ==
    \A c \in Contas :
        Cardinality({t \in Threads : em_renovacao(t) /\ task[t].conta_bling = c}) <= 1

\* one thread sleeps on a 429 inside its refresh while the other waits for
\* the lock, to get a token or to invalidate the cache after a 401
C5_Witness ==
    \E t, u \in Threads :
        /\ pc[t] = "tok_sleep"
        /\ pc[u] \in {"tok_lock", "api_401"}
        /\ task[u].conta_bling = task[t].conta_bling

(***************************************************************************)
(* C6.  A call of get_bling_token_for_account for an account whose cache   *)
(* entry has more than 60 s of validity left returns the cached token with *)
(* no store read, no store write and no network call.                      *)
(***************************************************************************)
C6_CacheHitNoIO ==
    [][\A t \in Threads :
         LET c == task[t].conta_bling
         IN (/\ pc[t] = "tok_lock"
             /\ pc'[t] # "tok_lock"
             /\ c \in DOMAIN TOKEN_CACHE
             /\ TOKEN_CACHE[c].expires_at > now + Margin)
            => (/\ pc'[t] = "api_get"
                /\ token'[t] = TOKEN_CACHE[c].token
                /\ tok_io'[t] = {}
                /\ ~conn'[t]
                /\ UNCHANGED <<TOKEN_CACHE, bling_contas, bling_oauth, posts>>)]_vars

\* a call has returned a token with no store or network operation, from an
\* entry with more than 60 s left
C6_Witness ==
    \E t \in Threads :
        /\ pc[t] = "api_get"
        /\ tok_io[t] = {}
        /\ task[t].conta_bling \in DOMAIN TOKEN_CACHE
        /\ token[t] = TOKEN_CACHE[task[t].conta_bling].token
        /\ TOKEN_CACHE[task[t].conta_bling].expires_at > now + Margin

(***************************************************************************)
(* C7.  When the ERP answers a refresh with 429 and then with 200, the     *)
(* stored credentials and the cache are updated exactly once, with the     *)
(* values of the 200 response; the 429 attempt changes neither.            *)
(***************************************************************************)
C7_429Then200 ==
    [][\A t \in Threads :
         pc[t] = "tok_post" =>
            LET c   == task[t].conta_bling
                gen == bling_oauth'[c]
            IN /\ pc'[t] = "tok_sleep" => UNCHANGED <<bling_contas, TOKEN_CACHE>>
               /\ (attempt[t] >= 1 /\ bling_oauth'[c] # bling_oauth[c]) =>
                     /\ bling_contas'[c] =
                            [access_token  |-> AccessToken(gen),
                             refresh_token |-> <<"rt", gen>>,
                             expires_at    |-> current_ts[t] + ExpiresIn]
                     /\ c \in DOMAIN TOKEN_CACHE'
                     /\ TOKEN_CACHE'[c] =
                            [token      |-> AccessToken(gen),
                             expires_at |-> current_ts[t] + ExpiresIn]]_vars

(***************************************************************************)
(* C8.  The rows processar_itens_pedido writes for an order are exactly    *)
(* one row per distinct product code of the incoming line list, with the   *)
(* summed quantity of the lines carrying the code and the description and  *)
(* unit price of the first line seen with it.                              *)
(***************************************************************************)
codigo_de(linha) == Get(linha, "codigo", "")

RECURSIVE soma_quantidades(_, _)
soma_quantidades(itens, codigo) ==
    IF itens = <<>> THEN 0
    ELSE (IF codigo_de(Head(itens)) = codigo
          THEN Get(Head(itens), "quantidade", 0) ELSE 0)
         + soma_quantidades(Tail(itens), codigo)

primeira_linha(itens, codigo) ==
    itens[CHOOSE i \in DOMAIN itens :
             /\ codigo_de(itens[i]) = codigo
             /\ \A j \in 1..(i - 1) : codigo_de(itens[j]) # codigo]

linhas_gravadas(pedido_id) == {r \in fat_itens_venda : r.pedido_data_id = pedido_id}

C9_CriacaoImutavel ==
    [][\A id \in DOMAIN pedidos :
         pedidos[id].data_criacao # NULL =>
            /\ id \in DOMAIN pedidos'
            /\ pedidos'[id].data_criacao = pedidos[id].data_criacao]_vars

\* the row holds the payload of an update whose creation time is another one
C9_Witness ==
    \E id \in DOMAIN pedidos :
        /\ pedidos[id].data_criacao # NULL
        /\ "data" \in DOMAIN pedidos[id].json_completo
        /\ pedidos[id].json_completo.data # pedidos[id].data_criacao

(***************************************************************************)
(* C10.  Processing order.deleted for an existing order sets its status    *)
(* code to 9999999 and its last event to order.deleted, and leaves its     *)
(* creation time, account, store id, numbers, total, payload and the       *)
(* line-item rows unchanged.                                               *)
(***************************************************************************)
C10_DeletedFrame ==
    [][\A t \in Threads :
         (/\ pc[t] = "uow"
          /\ task[t].event_type = "order.deleted"
          /\ task[t].entity_id \in DOMAIN pedidos
          /\ task[t].seq \in committed') =>
            LET old == pedidos[task[t].entity_id]
                new == pedidos'[task[t].entity_id]
            IN /\ new.situacao_id = Sentinel
               /\ new.ultimo_evento = "order.deleted"
               /\ new.data_criacao = old.data_criacao
               /\ new.conta_bling = old.conta_bling
               /\ new.loja_id = old.loja_id
               /\ new.numero_pedido = old.numero_pedido
               /\ new.numero_loja = old.numero_loja
               /\ new.valor_total = old.valor_total
               /\ new.json_completo = old.json_completo
               /\ fat_itens_venda' = fat_itens_venda
               /\ DOMAIN pedidos' = DOMAIN pedidos]_vars

\* a deleted order that keeps the creation time, payload and line items it
\* was written with
C10_Witness ==
    \E id \in DOMAIN pedidos :
        /\ pedidos[id].situacao_id = Sentinel
        /\ pedidos[id].ultimo_evento = "order.deleted"
        /\ pedidos[id].data_criacao # NULL
        /\ pedidos[id].json_completo # EmptyDoc
        /\ linhas_gravadas(id) # {}

(***************************************************************************)
(* C11.  When the product fetch of a product.* or stock.updated task       *)
(* returned 404 (the empty document), the committed unit of work writes or *)
(* changes no product row and no structure edge, and writes the event-log  *)
(* entry of the task.                                                      *)
(***************************************************************************)
chave_log(tk) == <<tk.entity_id, <<tk.event_type, tk.entity_id>>>>

evento_de_produto(event_type) ==
    startswith_product(event_type) \/ event_type = "stock.updated"

C11_Produto404 ==
    [][\A t \in Threads :
         (/\ pc[t] = "uow"
          /\ evento_de_produto(task[t].event_type)
          /\ full_data[t] = EmptyDoc
          /\ task[t].seq \in committed') =>
            /\ dim_produtos' = dim_produtos
            /\ dim_estrutura' = dim_estrutura
            /\ chave_log(task[t]) \in DOMAIN eventos_bling'
            /\ eventos_bling'[chave_log(task[t])].event = task[t].event_type]_vars

\* a product task is committed and logged and product 5 of c1 has no row:
\* its fetch answered 404
C11_Witness ==
    /\ committed # {}
    /\ <<5, "c1">> \notin DOMAIN dim_produtos
    /\ \E k \in DOMAIN eventos_bling :
          /\ k[1] = 5
          /\ eventos_bling[k].conta_bling = "c1"
          /\ evento_de_produto(eventos_bling[k].event)

(***************************************************************************)
(* C12.  A call of get_api_details_v3 always terminates: when the ERP      *)
(* keeps answering the GET with 5xx or network failures (or 429), the      *)
(* attempt counter reaches the ceiling of 20 and the call raises, so a     *)
(* thread at the GET eventually leaves the retry loop.                     *)
(***************************************************************************)
em_retry(t) == pc[t] \in {"api_get", "api_sleep60", "api_sleep5"}

C12_GetTermina ==
    \A t \in Workers : (pc[t] = "api_get") ~> ~em_retry(t)

(***************************************************************************)
(* C13.  After a 401, get_api_details_v3 retries the GET at most once with *)
(* the newly obtained token: a 401 answered to the retry makes the call    *)
(* raise, it does not invalidate the cache and retry again.                *)
(***************************************************************************)
C13_Um401 ==
    [][\A t \in Threads :
         (pc[t] = "api_get" /\ call_site[t] = "after401")
            => pc'[t] # "api_401"]_vars

(***************************************************************************)
(* C14.  After a 401 to an entity GET, the token of the retry comes from a *)
(* fresh refresh call to the ERP: the call of get_bling_token_for_account  *)
(* made after the 401 sends a refresh POST and never hands back the token  *)
(* that was just rejected, even when the stored row records it as valid    *)
(* for more than 60 s.                                                     *)
(***************************************************************************)
C14_TokenNovo ==
    [][\A t \in Threads :
         (/\ pc[t] \in {"tok_lock", "tok_db", "tok_post"}
          /\ call_site[t] = "after401"
          /\ pc'[t] = "api_get") =>
            /\ token'[t] # token[t]
            /\ "post" \in tok_io'[t]]_vars

(***************************************************************************)
(* C15.  handle_bling_webhook enqueues exactly one task and answers        *)
(* 'queued' if and only if the account parameter is present, the body      *)
(* parses as JSON (an empty body counts as unparsable) and an entity id    *)
(* can be extracted from data.id or data.produto.id; with a missing        *)
(* account or an unparsable body it answers 400 and enqueues nothing, with *)
(* no extractable entity id it answers 200 and enqueues nothing.           *)
(***************************************************************************)
conta_presente(conta_bling) == conta_bling # None /\ conta_bling # ""

corpo_json(payload) == payload # BadJson /\ payload # EmptyDoc

\* the id the body carries under data.id or data.produto.id, if any
id_do_corpo(payload) ==
    LET data == IF "data" \in DOMAIN payload /\ payload.data # JsonNull
                THEN payload.data ELSE EmptyDoc
        prod == IF "produto" \in DOMAIN data /\ data.produto # JsonNull
                THEN data.produto ELSE EmptyDoc
    IN IF "id" \in DOMAIN data /\ data.id # 0 THEN data.id
       ELSE IF "id" \in DOMAIN prod /\ prod.id # 0 THEN prod.id
       ELSE NullNum

C15_Ingress ==
    [][\A c \in IngressContas, p \in IngressPayloads :
         handle_bling_webhook({c}, {p}) =>
            LET aceito == /\ conta_presente(c)
                          /\ corpo_json(p)
                          /\ id_do_corpo(p) # NullNum
            IN /\ aceito =>
                    /\ http_resp' = <<200, [status |-> "queued"]>>
                    /\ Len(processing_queue') = Len(processing_queue) + 1
                    /\ SubSeq(processing_queue', 1, Len(processing_queue))
                          = processing_queue
                    /\ LET tk == processing_queue'[Len(processing_queue')]
                       IN /\ tk.entity_id = id_do_corpo(p)
                          /\ tk.conta_bling = c
               /\ ~aceito =>
                    /\ processing_queue' = processing_queue
                    /\ http_resp'[2] # [status |-> "queued"]
               /\ (~conta_presente(c) \/ ~corpo_json(p)) => http_resp'[1] = 400
               /\ (conta_presente(c) /\ corpo_json(p) /\ id_do_corpo(p) = NullNum)
                     => http_resp'[1] = 200]_vars

(***************************************************************************)
(* C16.  When the persistence step of a task fails (no connection, or a    *)
(* statement or the commit raises), the store is left unchanged by the     *)
(* attempt, the connection is released and the same task is put back at    *)
(* the tail of the queue.                                                  *)
(***************************************************************************)
C16_FalhaReenfileira ==
    [][\A t \in Threads :
         (/\ pc[t] \in {"db_conn", "uow"}
          /\ pc'[t] = "get"
          /\ task[t].seq \notin committed') =>
            /\ UNCHANGED store_vars
            /\ ~conn'[t]
            /\ processing_queue' = Append(processing_queue, task[t])]_vars

(***************************************************************************)
(* C17.  Each task's writes are one atomic unit of work: an attempt either *)
(* commits the entity write (the order row with all of its replaced line   *)
(* items, or the product row with its structure edges) together with the   *)
(* event-log entry, or changes nothing.  A failure while the line items    *)
(* are replaced never ends in a commit of the order row and the log entry  *)
(* with the line items missing or partial.                                 *)
(***************************************************************************)
C17_UnidadeAtomica ==
    [][\A t \in Threads :
         pc[t] = "uow" =>
            LET tk  == task[t]
                doc == full_data[t]
            IN IF tk.seq \in committed'
               THEN /\ chave_log(tk) \in DOMAIN eventos_bling'
                    /\ (startswith_order(tk.event_type)
                        /\ tk.event_type # "order.deleted") =>
                          /\ tk.entity_id \in DOMAIN pedidos'
                          /\ pedidos'[tk.entity_id].json_completo = doc
                          /\ \A i \in DOMAIN Get(doc, "itens", <<>>) :
                               \E r \in fat_itens_venda' :
                                  /\ r.pedido_data_id = tk.entity_id
                                  /\ r.codigo = codigo_de(doc.itens[i])
                    /\ (evento_de_produto(tk.event_type) /\ doc # EmptyDoc) =>
                          /\ <<doc.id, tk.conta_bling>> \in DOMAIN dim_produtos'
                          /\ dim_produtos'[<<doc.id, tk.conta_bling>>].json_completo = doc
                          /\ tem_estrutura(doc) =>
                               \A i \in DOMAIN doc.estrutura.componentes :
                                  \E r \in dim_estrutura' :
                                     /\ r.id_pai = doc.id
                                     /\ r.conta_bling = tk.conta_bling
                                     /\ r.id_filho = doc.estrutura.componentes[i].produto.id
               ELSE UNCHANGED store_vars]_vars

(***************************************************************************)
(* C18.  The structure edges of a (parent, account) are deleted and        *)
(* rewritten only when the incoming product document carries a non-empty   *)
(* component list: a document with no structure, or with an empty          *)
(* component list, leaves the existing edges of the (parent, account)      *)
(* unchanged; edges of other parents and accounts are never touched.       *)
(***************************************************************************)
arestas(tbl, id_pai, conta_bling) ==
    {r \in tbl : r.id_pai = id_pai /\ r.conta_bling = conta_bling}

lista_de_componentes(doc) ==
    IF "estrutura" \in DOMAIN doc /\ "componentes" \in DOMAIN doc.estrutura
    THEN doc.estrutura.componentes ELSE <<>>

C18_ArestasPreservadas ==
    [][\A t \in Threads :
         (/\ pc[t] = "uow"
          /\ evento_de_produto(task[t].event_type)
          /\ full_data[t] # EmptyDoc
          /\ task[t].seq \in committed') =>
            LET doc   == full_data[t]
                conta == task[t].conta_bling
            IN /\ dim_estrutura' \ arestas(dim_estrutura', doc.id, conta)
                    = dim_estrutura \ arestas(dim_estrutura, doc.id, conta)
               /\ lista_de_componentes(doc) = <<>> =>
                     arestas(dim_estrutura', doc.id, conta)
                        = arestas(dim_estrutura, doc.id, conta)]_vars

(***************************************************************************)
(* C19.  After a task commits, the event-log entry of its (entity id,      *)
(* event kind) holds the notification body of that task: of two            *)
(* notifications with the same entity id and event kind and different      *)
(* bodies processed in sequence, the entry records the second.             *)
(***************************************************************************)
C19_LogUltimoCorpo ==
    [][\A t \in Threads :
         (pc[t] = "uow" /\ task[t].seq \in committed') =>
            /\ chave_log(task[t]) \in DOMAIN eventos_bling'
            /\ eventos_bling'[chave_log(task[t])].data_json = task_json(task[t])]_vars

(***************************************************************************)
(* C20.  Processing is idempotent under replay: once a task has been       *)
(* committed, processing the same task again with the same document, at    *)
(* any later time, leaves the store equal to the store after the first     *)
(* commit apart from the update timestamps: the same order or product row, *)
(* the same line-item and structure rows, one event-log entry per          *)
(* (entity id, event kind).                                                *)
(***************************************************************************)
sem_atualizacao(db) ==
    [db EXCEPT
       !.pedidos      = [k \in DOMAIN @ |-> [@[k] EXCEPT !.data_atualizacao = NULL]],
       !.dim_produtos = [k \in DOMAIN @ |-> [@[k] EXCEPT !.data_atualizacao = NULL]]]

C21_Pedido404 ==
    [][\A t \in Threads :
         (/\ pc[t] = "uow"
          /\ task[t].event_type \in {"order.created", "order.updated"}
          /\ full_data[t] = EmptyDoc
          /\ task[t].seq \in committed') =>
            /\ pedidos' = pedidos
            /\ fat_itens_venda' = fat_itens_venda]_vars

(***************************************************************************)
(* C22.  When the ERP keeps answering the refresh with 429,                *)
(* get_bling_token_for_account sends at most 3 refresh POSTs, each with    *)
(* the refresh token read from the store, then returns failure; the stored *)
(* credentials and the cache are unchanged by the failed attempts.         *)
(***************************************************************************)
C22_Tres429 ==
    [][\A t \in Threads :
         /\ pc[t] = "tok_post" =>
               /\ attempt[t] < max_retries_token
               /\ pc'[t] = "tok_sleep" =>
                     /\ UNCHANGED <<bling_contas, TOKEN_CACHE, bling_oauth>>
                     /\ attempt'[t] = attempt[t]
         /\ pc[t] = "tok_sleep" =>
               /\ UNCHANGED <<bling_contas, TOKEN_CACHE, bling_oauth, posts>>
               /\ pc'[t] # "tok_sleep" =>
                     IF attempt[t] + 1 < max_retries_token
                     THEN pc'[t] = "tok_post" /\ attempt'[t] = attempt[t] + 1
                     ELSE /\ pc'[t] = "get"
                          /\ token'[t] = NoToken
                          /\ TOKEN_LOCK' = 0
                          /\ ~conn'[t]]_vars

\* three POSTs were answered 429, each followed by its sleep, and the call
\* has returned failure with the stored row as it was
C22_Witness ==
    /\ posts["c1"] = max_retries_token
    /\ now = (max_retries_token - 1) * SleepToken429
    /\ bling_oauth["c1"] = 0
    /\ bling_contas["c1"].refresh_token = <<"rt", 0>>
    /\ \A t \in Threads : pc[t] = "get"
    /\ TOKEN_LOCK = 0

(***************************************************************************)
(* C23.  When the ERP answers the refresh with 400 or 401,                 *)
(* get_bling_token_for_account removes the account's cache entry and       *)
(* returns failure without retrying; with a status other than 200, 429,    *)
(* 400 and 401 it returns failure without retrying.  In both cases the     *)
(* stored row and the cache entries of other accounts are unchanged.       *)
(***************************************************************************)
C23_RefreshRejeitado ==
    [][\A t \in Threads : \A st \in {400, 401, 403, 500} :
         (/\ TokPost(t, {st}, TokenDbModes)
          /\ bling_oauth' = bling_oauth
          /\ pc'[t] # "tok_sleep"
          /\ st \in {403, 500} =>
                bling_contas[task[t].conta_bling].refresh_token
                   = <<"rt", bling_oauth[task[t].conta_bling]>>) =>
            LET c == task[t].conta_bling
            IN /\ pc'[t] = "get"
               /\ token'[t] = NoToken
               /\ TOKEN_LOCK' = 0
               /\ posts'[c] = posts[c] + 1
               /\ bling_contas' = bling_contas
               /\ \A o \in DOMAIN TOKEN_CACHE \ {c} :
                     o \in DOMAIN TOKEN_CACHE' /\ TOKEN_CACHE'[o] = TOKEN_CACHE[o]
               /\ IF st \in {400, 401}
                  THEN c \notin DOMAIN TOKEN_CACHE'
                  ELSE TOKEN_CACHE' = TOKEN_CACHE]_vars

\* a refresh of c1 was rejected: the call is over after one POST, the cache
\* entry of c1 is gone, the one of c2 and the stored row are as they were
C23_Witness ==
    /\ posts["c1"] = 1
    /\ bling_oauth["c1"] = 0
    /\ "c1" \notin DOMAIN TOKEN_CACHE
    /\ "c2" \in DOMAIN TOKEN_CACHE
    /\ bling_contas["c1"].refresh_token = <<"rt", 0>>
    /\ \A t \in Threads : pc[t] = "get"

(***************************************************************************)
(* C24.  When the ERP answers the refresh with 200, the new access token,  *)
(* the new refresh token and the new expiry are written to the stored row, *)
(* the new access token and expiry to the cache, and the caller receives   *)
(* the new access token: in no execution, the store write failing          *)
(* included, has the ERP rotated the refresh token while the store holds   *)
(* only the old one.                                                       *)
(***************************************************************************)
C24_RotacaoGravada ==
    [][\A c \in Contas :
         bling_oauth'[c] # bling_oauth[c] =>
            LET gen == bling_oauth'[c]
            IN /\ bling_contas'[c].refresh_token = <<"rt", gen>>
               /\ bling_contas'[c].access_token = AccessToken(gen)
               /\ bling_contas'[c].expires_at > now + Margin
               /\ c \in DOMAIN TOKEN_CACHE'
               /\ TOKEN_CACHE'[c].token = AccessToken(gen)
               /\ TOKEN_CACHE'[c].expires_at = bling_contas'[c].expires_at
               /\ \E t \in Threads :
                     /\ pc[t] = "tok_post"
                     /\ task[t].conta_bling = c
                     /\ token'[t] = AccessToken(gen)]_vars

(***************************************************************************)
(* C25.  Line items are fully replaced on every order upsert: after an     *)
(* order.created or order.updated task commits, the line-item rows of that *)
(* order id are exactly the aggregated rows of the incoming line list      *)
(* (none when the list is empty or absent), no row of an earlier version   *)
(* of the order remains, and the line items of other orders are unchanged. *)
(***************************************************************************)
C25_ItensSubstituidos ==
    [][\A t \in Threads :
         (/\ pc[t] = "uow"
          /\ task[t].event_type \in {"order.created", "order.updated"}
          /\ task[t].seq \in committed' \ committed) =>
            LET id    == task[t].entity_id
                itens == Get(full_data[t], "itens", <<>>)
                rows  == {r \in fat_itens_venda' : r.pedido_data_id = id}
            IN /\ {r.codigo : r \in rows}
                     = {codigo_de(itens[i]) : i \in DOMAIN itens}
               /\ \A r, q \in rows : r.codigo = q.codigo => r = q
               /\ \A r \in rows :
                     /\ r.quantidade = soma_quantidades(itens, r.codigo)
                     /\ r.descricao =
                            Get(primeira_linha(itens, r.codigo), "descricao", "")
                     /\ r.valor_unitario =
                            Get(primeira_linha(itens, r.codigo), "valor", 0)
               /\ {r \in fat_itens_venda' : r.pedido_data_id # id}
                     = {r \in fat_itens_venda : r.pedido_data_id # id}]_vars

(***************************************************************************)
(* C26.  A failure of one task never stops the worker: after any outcome   *)
(* of a task (commit, persistence failure with requeue, an exception while *)
(* obtaining the token, fetching or decoding the task) the worker returns  *)
(* to dequeuing, so whenever the fetch step of each task terminates, every *)
(* task in the queue is eventually dequeued.                               *)
(***************************************************************************)
C26_WorkerSegue ==
    /\ \A t \in Workers : (pc[t] # "get") ~> (pc[t] = "get")
    /\ \A n \in 1..(MaxTasks + 1) : na_fila(n) ~> ~na_fila(n)

\* the first task failed at persistence and waits behind the second one,
\* with the worker back at processing_queue.get()
C26_Witness ==
    /\ Len(processing_queue) = 2
    /\ processing_queue[1].seq = 2
    /\ processing_queue[2].seq = 1
    /\ \A t \in Workers : pc[t] = "get"

(***************************************************************************)
(* C27.  A token that get_bling_token_for_account returns from the cache   *)
(* or from the stored row has more than 60 s of validity left at the       *)
(* moment it is returned, also when the caller waited for the lock while   *)
(* another caller held it through 429 sleeps.                              *)
(***************************************************************************)
C27_ValidadeNoRetorno ==
    [][\A t \in Threads :
         LET c == task[t].conta_bling
         IN /\ (pc[t] = "tok_lock" /\ pc'[t] = "api_get") =>
                  TOKEN_CACHE[c].expires_at > now + Margin
            /\ (pc[t] = "tok_db" /\ pc'[t] = "api_get") =>
                  bling_contas[c].expires_at > now + Margin]_vars

(***************************************************************************)
(* C28.  A retried earlier event never overwrites a later event: when      *)
(* order.created or order.updated and then order.deleted are enqueued for  *)
(* the same order id and no further task for that order is enqueued, then  *)
(* once the queue is drained the stored status of the order is the         *)
(* sentinel, also when the earlier task failed at persistence and was      *)
(* requeued behind the deletion.                                           *)
(***************************************************************************)
C28_DelecaoPrevalece ==
    (/\ nseq = 2
     /\ processing_queue = <<>>
     /\ \A t \in Threads : pc[t] = "get"
     /\ committed = {1, 2}) =>
        /\ 1 \in DOMAIN pedidos
        /\ pedidos[1].situacao_id = Sentinel

=============================================================================
